---- MODULE Spec2Model ----
(***************************************************************************)
(* A model of the bilibili downloader.                                     *)
(*                                                                         *)
(* The repository holds three iterations of the download operation:        *)
(*   "Downloader"  src/src/download.rs        Downloader::download         *)
(*   "BiliVideo"   src/src/bilibili/video.rs  Video::fetch_info, download  *)
(*   "Video"       src/src/video.rs           Video::download, driven by   *)
(*                 main of src/src/main.rs                                 *)
(* All three fetch through Crawler (src/src/crawler.rs) and merge with an  *)
(* ffmpeg child process.  The variable impl says which iteration runs.     *)
(*                                                                         *)
(* Specifications:                                                         *)
(*   Spec          the download operation, one poll or system call a step  *)
(*   SpecQuality   get_best_quality_index, get_hightest_quality_name       *)
(*   SpecVideoUrl  get_video_url of bilibili/video.rs and of video_info.rs *)
(*   SpecAudioUrl  get_audio_url, get_best_audio                           *)
(*   SpecSource    Downloader::download: tier reported, URLs downloaded    *)
(*   SpecVideoInfo VideoInfo::new of video_info.rs                         *)
(*   SpecTitle     extract_title, and the file names built from the title  *)
(*   SpecScript    extract_video_json of bilibili/api/bv.rs and video.rs   *)
(*   SpecInitialState  extract_initial_state of bilibili/initial_state.rs  *)
(*   SpecLocator   parse_js and try_extract_from_code on one fragment      *)
(*   SpecConfig    read_config of main.rs                                  *)
(* Every specification but Spec draws its input in the initial state and   *)
(* applies one function to it; indices are 0-based as in the source.       *)
(***************************************************************************)
EXTENDS Integers, Sequences, FiniteSets, TLC

VARIABLES
    impl,           \* which iteration of the download operation runs
    pc,             \* control point of the download operation
    proc,           \* the OS process: running, finished, exited or panicked
    fetch,          \* state of each of the two download_to futures
    file,           \* state of each temporary file on disk
    failOrder,      \* the fetches whose future resolved to Err, in order
    tool,           \* the ffmpeg child process and what it left behind
    result,         \* what the download operation returned
    rmAttempted,    \* temporary files whose fs::remove_file has been called
    completeLogged, \* the "下载完成" line has been logged
    stageFailed,    \* the stage of main that received an Err
    accept_quality, \* the catalog's quality ids (u8), in the order received
    accept_description, \* the catalog's labels, in the order received
    video,          \* dash.video: the video variants, in the order received
    audio,          \* dash.audio: the audio variants, in the order received
    selected,       \* selected_quality_index (usize, 0-based)
    answer,         \* what the resolver function that was called produced
    h1s,            \* the page's <h1> elements, in document order
    scripts,        \* the page's <script> elements, in document order: their
                    \* text (SpecScript) or their statements (SpecInitialState)
    config,         \* the file config.json
    ret             \* what the page or configuration function called produced

downloadVars == <<impl, pc, proc, fetch, file, failOrder, tool, result, rmAttempted,
                  completeLogged, stageFailed>>

resolverVars == <<accept_quality, accept_description, video, audio, selected, answer>>

pageVars == <<h1s, scripts, config, ret>>

\* What the download operation leaves alone, what the resolver does, and what
\* the functions over a page or over the configuration file do.
outsideDownload == <<resolverVars, pageVars>>
outsideResolver == <<downloadVars, pageVars>>
outsidePage == <<downloadVars, accept_quality, accept_description, video, audio,
                 selected, answer, h1s, scripts, config>>

vars == <<downloadVars, resolverVars, pageVars>>

----------------------------------------------------------------------------
(* Values *)

Impls == {"Downloader", "BiliVideo", "Video"}

Fetches == {"video", "audio"}

Other(f) == IF f = "video" THEN "audio" ELSE "video"

\* Positions of a download_to future that has not resolved yet.
PendingStates == {"unpolled", "sending", "reading"}

\* A future dropped by try_join! keeps the position it was dropped at.
DroppedAt(st) ==
    CASE st = "unpolled" -> "dropped_unpolled"
      [] st = "sending"  -> "dropped_sending"
      [] st = "reading"  -> "dropped_reading"
      [] OTHER           -> st

DroppedStates == {"dropped_unpolled", "dropped_sending", "dropped_reading"}

\* Captured output of the child process: bytes, one of them not valid UTF-8.
InvalidBytes == "\\xff"
StdoutBytes == {"out", InvalidBytes}
StderrBytes == {"err", InvalidBytes}

\* String::from_utf8 succeeds exactly on valid UTF-8.
IsUtf8(bytes) == bytes # InvalidBytes

\* std::process::ExitStatus::code(): Some(code), or None when killed by a signal.
ExitStatuses ==
    {[has_code |-> TRUE, code |-> c] : c \in {0, 1}} \cup {[has_code |-> FALSE, code |-> 0]}

NoResult == [kind |-> "none", src |-> "none", stdout |-> "", stderr |-> ""]
OkResult == [kind |-> "ok", src |-> "none", stdout |-> "", stderr |-> ""]
ErrResult(src) == [kind |-> "err", src |-> src, stdout |-> "", stderr |-> ""]
ToolErr(src, out, err) == [kind |-> "err", src |-> src, stdout |-> out, stderr |-> err]

ToolIdle == [state |-> "idle", status |-> [has_code |-> FALSE, code |-> 0], stdout |-> "", stderr |-> ""]
ToolRunning == [ToolIdle EXCEPT !.state = "running"]
ToolExited(status, out, err) ==
    [state |-> "exited", status |-> status, stdout |-> out, stderr |-> err]

----------------------------------------------------------------------------
(* Crawler::download_to, one poll of its future at a time *)

\* What one poll of a download_to future can do, by the position it is at.
FetchOutcomes(st) ==
    CASE st = "unpolled" -> {"pending", "err"}
      [] st = "sending"  -> {"pending", "err", "exit"}
      [] st = "reading"  -> {"ok", "err", "err_partial"}
      [] OTHER           -> {}

NextFetchState(st, o) ==
    CASE o = "pending" /\ st = "unpolled" -> "sending"
      [] o = "pending" /\ st = "sending"  -> "reading"
      [] o = "ok"                         -> "ok"
      [] OTHER                            -> "err"

\* File::create and write_all: the file is written in full, or left partial
\* when write_all fails; every earlier failure leaves the disk untouched.
FileAfter(o, old) ==
    CASE o = "ok"          -> "full"
      [] o = "err_partial" -> "partial"
      [] OTHER             -> old

----------------------------------------------------------------------------
(* tokio::try_join! over the two download_to futures *)

\* A join that resolves as soon as one future has succeeded.
TryJoinFirstOk(st) ==
    IF \E f \in Fetches : st[f] = "err" THEN "err"
    ELSE IF \E f \in Fetches : st[f] = "ok" THEN "ok" ELSE "pending"

\* A join that waits for every future before it reports an error.
TryJoinWaitAll(st) ==
    IF \E f \in Fetches : st[f] \in PendingStates THEN "pending"
    ELSE IF \E f \in Fetches : st[f] = "err" THEN "err" ELSE "ok"

\* try_join!: Err as soon as one future resolves to Err, Ok once all are Ok.
TryJoin(st) ==
    IF \E f \in Fetches : st[f] = "err" THEN "err"
    ELSE IF \A f \in Fetches : st[f] = "ok" THEN "ok" ELSE "pending"

\* The error try_join! returns: that of the future that resolved to Err.
JoinError(st) == CHOOSE f \in Fetches : st[f] = "err"

\* Returning from try_join! drops the futures that have not resolved.
DropPending(st) == [f \in Fetches |-> DroppedAt(st[f])]

----------------------------------------------------------------------------
(* merge_video_and_audio, after Command::output() has returned *)

MergeResult(status, out, err) ==
    IF ~(IsUtf8(out) /\ IsUtf8(err)) THEN [kind |-> "panic", src |-> "from_utf8", stdout |-> "", stderr |-> ""]
    ELSE IF ~status.has_code THEN ToolErr("no_exit_code", out, err)
    ELSE IF status.code # 0 THEN ToolErr("exit_code", out, err)
    ELSE OkResult

----------------------------------------------------------------------------
(* The download operation *)

\* What the stages before the fetches can end in.  For "Video", main: an Err
\* of get_video_info or of the quality prompt (main panics after logging), a
\* panic inside get_video_info (VideoInfo::new indexing the labels) or inside
\* Video::download before the fetches, an exit on a non-200 page.  For
\* "BiliVideo", Video::fetch_info, which builds the Video that download runs
\* on (an Err of get_bv_info: download never runs; an exit on a non-200
\* page), then select_quality in Video::download (a panic).
ResolveOutcomes(i) ==
    CASE i = "Video"      -> {"ok", "err_info", "err_select", "panic", "exit"}
      [] i = "Downloader" -> {"ok", "err", "panic", "exit"}
      [] i = "BiliVideo"  -> {"ok", "err", "panic", "exit"}

\* No function over a page or over the configuration file is under study.
NoRet == [fn |-> "none", kind |-> "none"]

PageIdle ==
    /\ h1s = <<>>
    /\ scripts = <<>>
    /\ config = [state |-> "missing"]
    /\ ret = NoRet

\* No resolver function is under study: the catalog is empty and stays so.
ResolverIdle ==
    /\ accept_quality = <<>>
    /\ accept_description = <<>>
    /\ video = <<>>
    /\ audio = <<>>
    /\ selected = 0
    /\ answer = [fn |-> "none", kind |-> "none", idx |-> 0, url |-> <<>>]

Init ==
    /\ ResolverIdle
    /\ PageIdle
    /\ impl \in Impls
    /\ pc = "resolve"
    /\ proc = "running"
    /\ fetch = [f \in Fetches |-> "unpolled"]
    /\ file = [f \in Fetches |-> "absent"]
    /\ failOrder = <<>>
    /\ tool = ToolIdle
    /\ result = NoResult
    /\ rmAttempted = {}
    /\ completeLogged = FALSE
    /\ stageFailed = "none"

\* main up to video.download; Downloader::download up to download_and_merge;
\* Video::fetch_info and Video::select_quality of bilibili/video.rs.
Resolve(o) ==
    /\ proc = "running" /\ pc = "resolve"
    /\ o \in ResolveOutcomes(impl)
    /\ CASE o = "ok" ->
              /\ pc' = "start"
              /\ UNCHANGED <<proc, result, stageFailed>>
         [] o = "err" ->
              /\ pc' = "returned"
              /\ result' = ErrResult("resolve")
              /\ UNCHANGED <<proc, stageFailed>>
         [] o = "err_info" ->
              /\ stageFailed' = "info"
              /\ proc' = "panicked"
              /\ UNCHANGED <<pc, result>>
         [] o = "err_select" ->
              /\ stageFailed' = "select"
              /\ proc' = "panicked"
              /\ UNCHANGED <<pc, result>>
         [] o = "panic" ->
              /\ proc' = "panicked"
              /\ UNCHANGED <<pc, result, stageFailed>>
         [] o = "exit" ->
              /\ proc' = "exited"
              /\ UNCHANGED <<pc, result, stageFailed>>
    /\ UNCHANGED <<impl, fetch, file, failOrder, tool, rmAttempted, completeLogged>>
    /\ UNCHANGED outsideDownload

\* fs::create_dir_all of the download directory, then the futures are built.
StartFetching(mkdir_ok) ==
    /\ proc = "running" /\ pc = "start"
    /\ (impl = "Video" => mkdir_ok)
    /\ IF mkdir_ok
         THEN pc' = "fetching" /\ UNCHANGED result
         ELSE pc' = "returned" /\ result' = ErrResult("create_dir")
    /\ UNCHANGED <<impl, proc, fetch, file, failOrder, tool, rmAttempted,
                   completeLogged, stageFailed>>
    /\ UNCHANGED outsideDownload

\* One poll of one download_to future inside try_join!, and what try_join!
\* makes of it.  The first poll of the join polls the video future first.
PollFetch(f, o) ==
    /\ proc = "running" /\ pc = "fetching"
    /\ fetch[f] \in PendingStates
    /\ (f = "audio" => fetch["video"] # "unpolled")
    /\ o \in FetchOutcomes(fetch[f])
    /\ IF o = "exit"
         THEN /\ proc' = "exited"
              /\ UNCHANGED <<pc, fetch, file, failOrder, result>>
         ELSE LET st == [fetch EXCEPT ![f] = NextFetchState(fetch[f], o)]
                  joined == TryJoin(st)
              IN  /\ proc' = proc
                  /\ file' = [file EXCEPT ![f] = FileAfter(o, @)]
                  /\ failOrder' = IF st[f] = "err" THEN Append(failOrder, f) ELSE failOrder
                  /\ CASE joined = "err" ->
                            /\ fetch' = DropPending(st)
                            /\ result' = ErrResult(JoinError(st))
                            /\ pc' = "returned"
                       [] joined = "ok" ->
                            /\ fetch' = st
                            /\ pc' = "merge"
                            /\ UNCHANGED result
                       [] OTHER ->
                            /\ fetch' = st
                            /\ UNCHANGED <<pc, result>>
    /\ UNCHANGED <<impl, tool, rmAttempted, completeLogged, stageFailed>>
    /\ UNCHANGED outsideDownload

\* Command::new("ffmpeg") ... .output(): the child is spawned, or expect panics.
MergeSpawn(spawned) ==
    /\ proc = "running" /\ pc = "merge"
    /\ IF spawned
         THEN tool' = ToolRunning /\ pc' = "merging" /\ UNCHANGED proc
         ELSE proc' = "panicked" /\ UNCHANGED <<tool, pc>>
    /\ UNCHANGED <<impl, fetch, file, failOrder, result, rmAttempted,
                   completeLogged, stageFailed>>
    /\ UNCHANGED outsideDownload

\* The child exits; the rest of merge_video_and_audio and the log line after it.
MergeExit(status, out, err) ==
    /\ proc = "running" /\ pc = "merging"
    /\ tool' = ToolExited(status, out, err)
    /\ LET r == MergeResult(status, out, err)
       IN  CASE r.kind = "panic" ->
                  /\ proc' = "panicked"
                  /\ UNCHANGED <<pc, result, completeLogged>>
             [] r.kind = "err" ->
                  /\ pc' = "returned"
                  /\ result' = r
                  /\ UNCHANGED <<proc, completeLogged>>
             [] OTHER ->
                  IF impl = "Video"
                    THEN /\ pc' = "returned"
                         /\ result' = OkResult
                         /\ UNCHANGED <<proc, completeLogged>>
                    ELSE /\ pc' = "rm_video"
                         /\ completeLogged' = TRUE
                         /\ UNCHANGED <<proc, result>>
    /\ UNCHANGED <<impl, fetch, file, failOrder, rmAttempted, stageFailed>>
    /\ UNCHANGED outsideDownload

\* fs::remove_file(video_path)?
RemoveVideo(removed) ==
    /\ proc = "running" /\ pc = "rm_video"
    /\ rmAttempted' = rmAttempted \cup {"video"}
    /\ IF removed
         THEN /\ file' = [file EXCEPT !["video"] = "removed"]
              /\ pc' = "rm_audio"
              /\ UNCHANGED result
         ELSE /\ pc' = "returned"
              /\ result' = ErrResult("remove_video")
              /\ UNCHANGED file
    /\ UNCHANGED <<impl, proc, fetch, failOrder, tool, completeLogged, stageFailed>>
    /\ UNCHANGED outsideDownload

\* fs::remove_file(audio_path)?; Ok(())
RemoveAudio(removed) ==
    /\ proc = "running" /\ pc = "rm_audio"
    /\ rmAttempted' = rmAttempted \cup {"audio"}
    /\ pc' = "returned"
    /\ IF removed
         THEN /\ file' = [file EXCEPT !["audio"] = "removed"]
              /\ result' = OkResult
         ELSE /\ result' = ErrResult("remove_audio")
              /\ UNCHANGED file
    /\ UNCHANGED <<impl, proc, fetch, failOrder, tool, completeLogged, stageFailed>>
    /\ UNCHANGED outsideDownload

\* main after video.download: an Err panics, Ok ends the process.
MainHandleResult ==
    /\ proc = "running" /\ pc = "returned" /\ impl = "Video"
    /\ IF result.kind = "err"
         THEN stageFailed' = "download" /\ proc' = "panicked"
         ELSE proc' = "finished" /\ UNCHANGED stageFailed
    /\ UNCHANGED <<impl, pc, fetch, file, failOrder, tool, result, rmAttempted,
                   completeLogged>>
    /\ UNCHANGED outsideDownload

Next ==
    \/ \E o \in {"ok", "err", "err_info", "err_select", "panic", "exit"} : Resolve(o)
    \/ \E b \in BOOLEAN : StartFetching(b)
    \/ \E f \in Fetches : \E o \in {"pending", "ok", "err", "err_partial", "exit"} : PollFetch(f, o)
    \/ \E b \in BOOLEAN : MergeSpawn(b)
    \/ \E s \in ExitStatuses : \E out \in StdoutBytes : \E err \in StderrBytes : MergeExit(s, out, err)
    \/ \E b \in BOOLEAN : RemoveVideo(b)
    \/ \E b \in BOOLEAN : RemoveAudio(b)
    \/ MainHandleResult

Spec == Init /\ [][Next]_vars

----------------------------------------------------------------------------
(* Properties of the download operation *)

MergeStarted == tool.state # "idle"

MergeSucceeded ==
    /\ tool.state = "exited"
    /\ MergeResult(tool.status, tool.stdout, tool.stderr).kind = "ok"

\* The operation has gone past try_join!.
LeftFetching ==
    /\ pc \notin {"resolve", "start", "fetching"}
    /\ result.src \notin {"resolve", "create_dir"}

\* C1: the merge tool is started only after both fetches have completed
\* successfully, so it never runs beside a fetch, and a temporary file is
\* removed only after the merge tool has exited successfully.
C1_MergeAfterFetchesCleanupAfterMerge ==
    /\ (MergeStarted => \A f \in Fetches : fetch[f] = "ok")
    /\ (rmAttempted # {} => MergeSucceeded)

\* C1 witness: the merge tool has exited and removal of the video file has begun.
C1_Witness ==
    /\ tool.state = "exited"
    /\ "video" \in rmAttempted
    /\ \A f \in Fetches : fetch[f] = "ok"

\* A fetch has failed: its download_to future resolved to Err, or the server
\* answered it with a status other than 200 and fetch_body ended the process
\* while the operation was inside try_join!.
FetchFailed ==
    \/ failOrder # <<>>
    \/ proc = "exited" /\ pc = "fetching"

\* C2: once the video fetch or the audio fetch has failed, whether by an Err
\* or by a response that is not 200, the operation has returned an error, the
\* error is that of the fetch that failed first, and the merge tool was never
\* started.
C2_FetchFailureReturnsFirstError ==
    FetchFailed =>
        /\ pc = "returned"
        /\ result.kind = "err"
        /\ result.src \in Fetches
        /\ (failOrder # <<>> => result = ErrResult(failOrder[1]))
        /\ ~MergeStarted

\* C3 as claimed: once both fetches have been started, the operation does not
\* leave the fetching phase until both have finished, even when one of them
\* has already failed.
C3_WaitsForBothFetches ==
    (LeftFetching /\ \A f \in Fetches : fetch[f] # "dropped_unpolled") =>
        \A f \in Fetches : fetch[f] \in {"ok", "err"}

\* C3 amended: the audio fetch is first polled after the video fetch; the
\* fetching phase never continues past a failed fetch; it is left either with
\* both fetches successful, or with the error of the one failed fetch, no merge,
\* and the other fetch successful or dropped where it stood.
C3_LeavesOnFirstErrorOrBothOk ==
    /\ (fetch["audio"] # "unpolled" => fetch["video"] # "unpolled")
    /\ (pc = "fetching" => \A f \in Fetches : fetch[f] # "err")
    /\ (LeftFetching =>
          \/ \A f \in Fetches : fetch[f] = "ok"
          \/ \E f \in Fetches :
                /\ fetch[f] = "err"
                /\ fetch[Other(f)] \in {"ok"} \cup DroppedStates
                /\ result = ErrResult(f)
                /\ ~MergeStarted)

\* C3 witness: the operation returned the video fetch's error while the audio
\* fetch was still in flight.
C3_Witness ==
    /\ pc = "returned"
    /\ fetch["video"] = "err"
    /\ fetch["audio"] \in {"dropped_sending", "dropped_reading"}
    /\ result = ErrResult("video")

\* C4: when the operation returns a fetch's error, removal of every temporary
\* file it wrote, in full or in part, has been attempted.
C4_CleanupOnFetchFailure ==
    (pc = "returned" /\ result.src \in Fetches) =>
        \A f \in Fetches : file[f] \in {"partial", "full"} => f \in rmAttempted

\* C5: the merge succeeds only on exit code 0; when the tool has exited with
\* another code or without one, the operation has returned an error carrying
\* the captured stdout and stderr and was not reported complete.
C5_MergeFailureSurfaced ==
    /\ ((completeLogged \/ result.kind = "ok") =>
            tool.status = [has_code |-> TRUE, code |-> 0])
    /\ ((tool.state = "exited" /\ tool.status # [has_code |-> TRUE, code |-> 0]) =>
            /\ pc = "returned"
            /\ result.kind = "err"
            /\ result.stdout = tool.stdout
            /\ result.stderr = tool.stderr
            /\ ~completeLogged)

\* C6: when the operation of download.rs or bilibili/video.rs has returned
\* after a successful merge, removal of both temporary files has been
\* attempted and the operation returned success.
C6_CleanupFailureNotFatal ==
    (impl # "Video" /\ pc = "returned" /\ completeLogged) =>
        /\ rmAttempted = Fetches
        /\ result.kind = "ok"

\* C7: a failure at a stage of processing a video id is recorded and
\* processing goes on; it never ends the process abruptly.
C7_FailureRecordedBatchContinues ==
    stageFailed # "none" => proc # "panicked"

----------------------------------------------------------------------------
(* The stream resolver: pure functions over the catalog *)

MaxTiers == 3        \* longest list of quality ids and of labels
MaxQualityId == 2    \* quality ids are 0..MaxQualityId
MaxVariants == 3     \* longest list of video or audio variants
MaxBandwidth == 2    \* bandwidths are 0..MaxBandwidth

QualityIds == 0..MaxQualityId
Bandwidths == 0..MaxBandwidth

SeqsUpTo(S, n) == UNION {[1..k -> S] : k \in 0..n}

\* The i-th label, video URL and audio URL (1-based); all distinct, none empty.
LabelAt(i) == <<"L", i>>
VideoUrlAt(i) == <<"v", i>>
AudioUrlAt(i) == <<"a", i>>
NoUrl == <<>>

Labels(n) == [i \in 1..n |-> LabelAt(i)]

\* Every list of at most n video variants.
VideoLists(n) ==
    UNION {{[i \in 1..k |-> [id |-> p[i][1], bandwidth |-> p[i][2], base_url |-> VideoUrlAt(i)]] :
                p \in [1..k -> QualityIds \X Bandwidths]} : k \in 0..n}

\* Every list of at most n audio variants.
AudioLists(n) ==
    UNION {{[i \in 1..k |-> [bandwidth |-> b[i], base_url |-> AudioUrlAt(i)]] :
                b \in [1..k -> Bandwidths]} : k \in 0..n}

NoAnswer == [fn |-> "none", kind |-> "none", idx |-> 0, url |-> NoUrl]
IndexAnswer(fn, idx) == [fn |-> fn, kind |-> "ok", idx |-> idx, url |-> NoUrl]
UrlAnswer(fn, url) == [fn |-> fn, kind |-> "ok", idx |-> 0, url |-> url]
PanicAnswer(fn, idx) == [fn |-> fn, kind |-> "panic", idx |-> idx, url |-> NoUrl]

\* for (idx, quality) in accept_quality.iter().enumerate(), with `>=`.
RECURSIVE LastMaxLoop(_, _, _, _)
LastMaxLoop(qs, i, max_idx, max_quality) ==
    IF i = Len(qs) THEN max_idx
    ELSE IF qs[i + 1] >= max_quality
           THEN LastMaxLoop(qs, i + 1, i, qs[i + 1])
           ELSE LastMaxLoop(qs, i + 1, max_idx, max_quality)

BestQualityIndexLastMax(qs) == LastMaxLoop(qs, 0, 0, 0)

\* for (idx, quality) in accept_quality.iter().enumerate()
\*     { if *quality > max_quality { max_quality = *quality; max_idx = idx; } }
RECURSIVE BestQualityLoop(_, _, _, _)
BestQualityLoop(qs, i, max_idx, max_quality) ==
    IF i = Len(qs) THEN max_idx
    ELSE IF qs[i + 1] > max_quality
           THEN BestQualityLoop(qs, i + 1, i, qs[i + 1])
           ELSE BestQualityLoop(qs, i + 1, max_idx, max_quality)

\* max_idx of Video::get_best_quality_index (0-based).
BestQualityIndex(qs) == BestQualityLoop(qs, 0, 0, 0)

\* max_idx of VideoInfo::get_hightest_quality_name (0-based): the same loop.
HightestQualityIndex(qs) == BestQualityLoop(qs, 0, 0, 0)

\* for video in &video { if video.id == quality && video.bandwidth > max_bandwidth
\*     { max_bandwidth = video.bandwidth; url = video.base_url.clone(); } }
RECURSIVE VideoUrlLoop(_, _, _, _, _)
VideoUrlLoop(vs, quality, i, max_bandwidth, url) ==
    IF i = Len(vs) THEN url
    ELSE IF vs[i + 1].id = quality /\ vs[i + 1].bandwidth > max_bandwidth
           THEN VideoUrlLoop(vs, quality, i + 1, vs[i + 1].bandwidth, vs[i + 1].base_url)
           ELSE VideoUrlLoop(vs, quality, i + 1, max_bandwidth, url)

\* for audio in &audio { if audio.bandwidth > max_bandwidth
\*     { max_bandwidth = audio.bandwidth; url = audio.base_url.clone(); } }
RECURSIVE AudioUrlLoop(_, _, _, _)
AudioUrlLoop(as, i, max_bandwidth, url) ==
    IF i = Len(as) THEN url
    ELSE IF as[i + 1].bandwidth > max_bandwidth
           THEN AudioUrlLoop(as, i + 1, as[i + 1].bandwidth, as[i + 1].base_url)
           ELSE AudioUrlLoop(as, i + 1, max_bandwidth, url)

\* for (idx, resource) in resources.iter().enumerate() { if resource.bandwidth >
\*     max_bandwidth { max_bandwidth = resource.bandwidth; best_resource_idx = idx; } }
RECURSIVE BestResourceLoop(_, _, _, _)
BestResourceLoop(rs, i, max_bandwidth, best_resource_idx) ==
    IF i = Len(rs) THEN best_resource_idx
    ELSE IF rs[i + 1].bandwidth > max_bandwidth
           THEN BestResourceLoop(rs, i + 1, rs[i + 1].bandwidth, i)
           ELSE BestResourceLoop(rs, i + 1, max_bandwidth, best_resource_idx)

\* available_quality: the distinct ids of S, sorted with b.cmp(a).
RECURSIVE SortDescending(_)
SortDescending(S) ==
    IF S = {} THEN <<>>
    ELSE LET top == CHOOSE m \in S : \A x \in S : x <= m
         IN  <<top>> \o SortDescending(S \ {top})

\* all_quality.iter().position(|r| r == q), 0-based; -1 stands for None.
RECURSIVE Position(_, _, _)
Position(qs, q, i) ==
    IF i = Len(qs) THEN -1
    ELSE IF qs[i + 1] = q THEN i
    ELSE Position(qs, q, i + 1)

InfoOk(quality, quality_description) ==
    [fn |-> "VideoInfo::new", kind |-> "ok", quality |-> quality,
     quality_description |-> quality_description, quality_not_found |-> <<>>]
InfoErr(quality_not_found) ==
    [fn |-> "VideoInfo::new", kind |-> "err", quality |-> <<>>,
     quality_description |-> <<>>, quality_not_found |-> quality_not_found]
InfoPanic ==
    [fn |-> "VideoInfo::new", kind |-> "panic", quality |-> <<>>,
     quality_description |-> <<>>, quality_not_found |-> <<>>]

\* available_quality.iter().map(|q| match all_quality.iter().position(..) {
\*     Some(index) => String::from(&all_description[index]),
\*     None => { quality_not_found.push(*q); return "".to_owned() } }).collect()
\* and the two returns that follow it.
RECURSIVE VideoInfoNewLoop(_, _, _, _, _, _)
VideoInfoNewLoop(available_quality, i, all_quality, all_description, quality_description, quality_not_found) ==
    IF i = Len(available_quality)
      THEN IF Len(quality_not_found) > 0 THEN InfoErr(quality_not_found)
           ELSE InfoOk(available_quality, quality_description)
    ELSE LET q == available_quality[i + 1]
             index == Position(all_quality, q, 0)
         IN  IF index = -1
               THEN VideoInfoNewLoop(available_quality, i + 1, all_quality,
                        all_description, Append(quality_description, NoUrl),
                        Append(quality_not_found, q))
             ELSE IF index >= Len(all_description) THEN InfoPanic
             ELSE VideoInfoNewLoop(available_quality, i + 1, all_quality,
                      all_description,
                      Append(quality_description, all_description[index + 1]),
                      quality_not_found)

\* VideoInfo::new
VideoInfo_new(all_quality, all_description, vs) ==
    VideoInfoNewLoop(SortDescending({vs[i].id : i \in 1..Len(vs)}), 0,
                     all_quality, all_description, <<>>, <<>>)

\* Video::get_best_quality_index: the index, after the label at it was logged.
get_best_quality_index(qs, ds) ==
    LET max_idx == BestQualityIndex(qs)
    IN  IF max_idx >= Len(ds)
          THEN PanicAnswer("get_best_quality_index", max_idx)
          ELSE IndexAnswer("get_best_quality_index", max_idx)

\* VideoInfo::get_hightest_quality_name: the label at the index.
get_hightest_quality_name(qs, ds) ==
    LET max_idx == HightestQualityIndex(qs)
    IN  IF max_idx >= Len(ds)
          THEN PanicAnswer("get_hightest_quality_name", max_idx)
          ELSE [fn |-> "get_hightest_quality_name", kind |-> "ok", idx |-> max_idx,
                url |-> ds[max_idx + 1]]

\* Video::get_video_url of bilibili/video.rs: panics on an index out of range
\* and on an empty url.
get_video_url(qs, vs, i) ==
    IF i >= Len(qs) THEN PanicAnswer("get_video_url", i)
    ELSE LET url == VideoUrlLoop(vs, qs[i + 1], 0, 0, NoUrl)
         IN  IF Len(url) = 0 THEN PanicAnswer("get_video_url", i)
             ELSE UrlAnswer("get_video_url", url)

\* VideoInfo::get_video_url of video_info.rs, on the VideoInfo that
\* VideoInfo::new made of the catalog: self.quality holds the distinct ids of
\* the video variants, largest first.  Panics on an index out of range and
\* returns the url, empty or not.
info_get_video_url(info, vs, i) ==
    IF i >= Len(info.quality) THEN PanicAnswer("info_get_video_url", i)
    ELSE UrlAnswer("info_get_video_url", VideoUrlLoop(vs, info.quality[i + 1], 0, 0, NoUrl))

\* Video::get_audio_url of bilibili/video.rs (VideoInfo::get_audio_url of
\* video_info.rs is the same code).
get_audio_url(as) == UrlAnswer("get_audio_url", AudioUrlLoop(as, 0, 0, NoUrl))

\* VideoInfo::find_best_resource: resources[best_resource_idx].clone()
find_best_resource(fn, rs) ==
    LET best_resource_idx == BestResourceLoop(rs, 0, 0, 0)
    IN  IF best_resource_idx >= Len(rs) THEN PanicAnswer(fn, best_resource_idx)
        ELSE [fn |-> fn, kind |-> "ok", idx |-> best_resource_idx,
              url |-> rs[best_resource_idx + 1].base_url]

\* VideoInfo::get_best_audio
get_best_audio(as) == find_best_resource("get_best_audio", as)

\* The download operation is not under study: it has returned and stays so.
DownloadIdle ==
    /\ impl = "Downloader"
    /\ pc = "returned"
    /\ proc = "running"
    /\ fetch = [f \in Fetches |-> "unpolled"]
    /\ file = [f \in Fetches |-> "absent"]
    /\ failOrder = <<>>
    /\ tool = ToolIdle
    /\ result = NoResult
    /\ rmAttempted = {}
    /\ completeLogged = FALSE
    /\ stageFailed = "none"

(* Best quality: every list of quality ids, with labels of any length *)

InitQuality ==
    /\ DownloadIdle
    /\ PageIdle
    /\ accept_quality \in SeqsUpTo(QualityIds, MaxTiers)
    /\ accept_description \in {Labels(n) : n \in 0..MaxTiers}
    /\ video = <<>>
    /\ audio = <<>>
    /\ selected = 0
    /\ answer = NoAnswer

GetBestQualityIndex ==
    /\ answer = NoAnswer
    /\ answer' = get_best_quality_index(accept_quality, accept_description)
    /\ UNCHANGED <<accept_quality, accept_description, video, audio, selected>>
    /\ UNCHANGED outsideResolver

GetHightestQualityName ==
    /\ answer = NoAnswer
    /\ answer' = get_hightest_quality_name(accept_quality, accept_description)
    /\ UNCHANGED <<accept_quality, accept_description, video, audio, selected>>
    /\ UNCHANGED outsideResolver

NextQuality == GetBestQualityIndex \/ GetHightestQualityName

SpecQuality == InitQuality /\ [][NextQuality]_vars

(* Video URL: every list of quality ids, selected index and list of variants *)

InitVideoUrl ==
    /\ DownloadIdle
    /\ PageIdle
    /\ accept_quality \in SeqsUpTo(QualityIds, MaxTiers)
    /\ accept_description = Labels(Len(accept_quality))
    /\ video \in VideoLists(MaxVariants)
    /\ audio = <<>>
    /\ selected \in 0..(MaxTiers - 1)
    /\ answer = NoAnswer

GetVideoUrl ==
    /\ answer = NoAnswer
    /\ answer' = get_video_url(accept_quality, video, selected)
    /\ UNCHANGED <<accept_quality, accept_description, video, audio, selected>>
    /\ UNCHANGED outsideResolver

\* VideoInfo::get_video_url exists once VideoInfo::new has returned Ok.
InfoGetVideoUrl ==
    /\ answer = NoAnswer
    /\ LET info == VideoInfo_new(accept_quality, accept_description, video)
       IN  /\ info.kind = "ok"
           /\ answer' = info_get_video_url(info, video, selected)
    /\ UNCHANGED <<accept_quality, accept_description, video, audio, selected>>
    /\ UNCHANGED outsideResolver

NextVideoUrl == GetVideoUrl \/ InfoGetVideoUrl

SpecVideoUrl == InitVideoUrl /\ [][NextVideoUrl]_vars

(* Audio URL: every list of audio variants *)

InitAudioUrl ==
    /\ DownloadIdle
    /\ PageIdle
    /\ accept_quality = <<>>
    /\ accept_description = <<>>
    /\ video = <<>>
    /\ audio \in AudioLists(MaxVariants)
    /\ selected = 0
    /\ answer = NoAnswer

GetAudioUrl ==
    /\ answer = NoAnswer
    /\ answer' = get_audio_url(audio)
    /\ UNCHANGED <<accept_quality, accept_description, video, audio, selected>>
    /\ UNCHANGED outsideResolver

GetBestAudio ==
    /\ answer = NoAnswer
    /\ answer' = get_best_audio(audio)
    /\ UNCHANGED <<accept_quality, accept_description, video, audio, selected>>
    /\ UNCHANGED outsideResolver

NextAudioUrl == GetAudioUrl \/ GetBestAudio

SpecAudioUrl == InitAudioUrl /\ [][NextAudioUrl]_vars

(* Downloader::download: the tier it reports and the URLs it downloads *)

\* fetch_video_info: dash.video mapped to Resource { base_url, bandwidth }.
Resources(vs) ==
    [i \in 1..Len(vs) |-> [base_url |-> vs[i].base_url, bandwidth |-> vs[i].bandwidth]]

\* VideoInfo::get_best_video
get_best_video(resources) == find_best_resource("get_best_video", resources)

\* Downloader::download from the "use quality" line to the VideoSource: the
\* index of the tier reported, and the URLs of the source.
download_source(qs, ds, vs, as) ==
    LET name == get_hightest_quality_name(qs, ds)
        best_video == get_best_video(Resources(vs))
        best_audio == get_best_audio(as)
    IN  IF name.kind = "panic" \/ best_video.kind = "panic" \/ best_audio.kind = "panic"
          THEN [fn |-> "Downloader::download", kind |-> "panic", idx |-> name.idx,
                url |-> NoUrl, audio_url |-> NoUrl]
          ELSE [fn |-> "Downloader::download", kind |-> "ok", idx |-> name.idx,
                url |-> best_video.url, audio_url |-> best_audio.url]

InitSource ==
    /\ DownloadIdle
    /\ PageIdle
    /\ accept_quality \in SeqsUpTo(QualityIds, MaxTiers)
    /\ accept_description = Labels(Len(accept_quality))
    /\ video \in VideoLists(MaxVariants)
    /\ audio \in AudioLists(MaxVariants)
    /\ selected = 0
    /\ answer = NoAnswer

DownloadSource ==
    /\ answer = NoAnswer
    /\ answer' = download_source(accept_quality, accept_description, video, audio)
    /\ UNCHANGED <<accept_quality, accept_description, video, audio, selected>>
    /\ UNCHANGED outsideResolver

SpecSource == InitSource /\ [][DownloadSource]_vars

(* VideoInfo::new of video_info.rs: every decoded catalog; the derived       *)
(* Deserialize of Data accepts lists of any lengths                        *)

InitVideoInfo ==
    /\ DownloadIdle
    /\ PageIdle
    /\ accept_quality \in SeqsUpTo(QualityIds, MaxTiers)
    /\ accept_description \in {Labels(n) : n \in 0..MaxTiers}
    /\ video \in VideoLists(MaxVariants)
    /\ audio = <<>>
    /\ selected = 0
    /\ answer = NoAnswer

VideoInfoNew ==
    /\ answer = NoAnswer
    /\ answer' = VideoInfo_new(accept_quality, accept_description, video)
    /\ UNCHANGED <<accept_quality, accept_description, video, audio, selected>>
    /\ UNCHANGED outsideResolver

SpecVideoInfo == InitVideoInfo /\ [][VideoInfoNew]_vars

----------------------------------------------------------------------------
(* The page: title extraction.  Strings are sequences of characters; a      *)
(* document is the sequence of its <h1> elements, each the sequence of its  *)
(* child nodes: a text node of one character or an element <i> holding one. *)

MaxH1 == 2           \* most <h1> elements in a page
MaxTitleNodes == 2   \* most child nodes of an <h1> element

TitleChars == {"a", "/", "&"}

TextNode(c) == [kind |-> "text", data |-> c]
ElemNode(c) == [kind |-> "elem", data |-> c]

H1Nodes == {TextNode(c) : c \in TitleChars} \cup {ElemNode("a")}

\* Every page with at most h <h1> elements of at most n child nodes each.
Documents(h, n) == SeqsUpTo(SeqsUpTo(H1Nodes, n), h)

\* The serializer's escaping of a character of a text node.
EscapeText(c) ==
    CASE c = "&" -> <<"&", "a", "m", "p", ";">>
      [] c = "<" -> <<"&", "l", "t", ";">>
      [] c = ">" -> <<"&", "g", "t", ";">>
      [] OTHER   -> <<c>>

\* ElementRef::inner_html(): the serialization of the element's children.
RECURSIVE inner_html(_)
inner_html(children) ==
    IF children = <<>> THEN <<>>
    ELSE LET node == Head(children)
         IN  (IF node.kind = "text" THEN EscapeText(node.data)
              ELSE <<"<", "i", ">">> \o EscapeText(node.data) \o <<"<", "/", "i", ">">>)
             \o inner_html(Tail(children))

\* str::replacen("/", "|", 1)
RECURSIVE ReplaceFirstSlash(_)
ReplaceFirstSlash(str) ==
    IF str = <<>> THEN <<>>
    ELSE IF Head(str) = "/" THEN <<"|">> \o Tail(str)
    ELSE <<Head(str)>> \o ReplaceFirstSlash(Tail(str))

\* str::replace("/", "|")
RECURSIVE ReplaceSlash(_)
ReplaceSlash(str) ==
    IF str = <<>> THEN <<>>
    ELSE <<(IF Head(str) = "/" THEN "|" ELSE Head(str))>> \o ReplaceSlash(Tail(str))

NoPaths == [video |-> <<>>, audio |-> <<>>, output |-> <<>>]

TitleOk(fn, title) == [fn |-> fn, kind |-> "ok", title |-> title, paths |-> NoPaths]
TitleErr(fn, why) == [fn |-> fn, kind |-> "err", title |-> why, paths |-> NoPaths]

\* potential_titles: inner_html() of every element that matches "h1".
potential_titles(document) == [i \in 1..Len(document) |-> inner_html(document[i])]

\* extract_title of bilibili/title.rs (bilibili/api/bv.rs has the same code).
extract_title(document) ==
    LET titles == potential_titles(document)
    IN  IF Len(titles) > 1 THEN TitleErr("extract_title", "multiple <h1>")
        ELSE IF Len(titles) = 0 THEN TitleErr("extract_title", "no <h1>")
        ELSE TitleOk("extract_title", titles[1])

\* Video::extract_title of video.rs.
Video_extract_title(document) ==
    LET titles == potential_titles(document)
    IN  IF Len(titles) > 1 THEN TitleErr("Video::extract_title", "multiple <h1>")
        ELSE IF Len(titles) = 0 THEN TitleErr("Video::extract_title", "no <h1>")
        ELSE TitleOk("Video::extract_title", ReplaceSlash(titles[1]))

\* The file names built from a title: format!("{}_video.mp4", title), ...
FileNames(title) ==
    [video  |-> title \o <<"_video.mp4">>,
     audio  |-> title \o <<"_audio.mp4">>,
     output |-> title \o <<".mp4">>]

InitTitle ==
    /\ DownloadIdle
    /\ ResolverIdle
    /\ h1s \in Documents(MaxH1, MaxTitleNodes)
    /\ scripts = <<>>
    /\ config = [state |-> "missing"]
    /\ ret = NoRet

ExtractTitle ==
    /\ ret = NoRet
    /\ ret' = extract_title(h1s)
    /\ UNCHANGED outsidePage

VideoExtractTitle ==
    /\ ret = NoRet
    /\ ret' = Video_extract_title(h1s)
    /\ UNCHANGED outsidePage

\* Downloader::download_and_merge (Video::download of bilibili/video.rs does
\* the same): the title of extract_title, with "/" replaced, names the files.
DownloadAndMergePaths ==
    /\ ret.fn = "extract_title"
    /\ ret.kind = "ok"
    /\ ret.paths = NoPaths
    /\ ret' = [ret EXCEPT !.paths = FileNames(ReplaceSlash(ret.title))]
    /\ UNCHANGED outsidePage

\* Video::download of video.rs: the title of Video::extract_title names the
\* files as it is.
VideoDownloadPaths ==
    /\ ret.fn = "Video::extract_title"
    /\ ret.kind = "ok"
    /\ ret.paths = NoPaths
    /\ ret' = [ret EXCEPT !.paths = FileNames(ret.title)]
    /\ UNCHANGED outsidePage

NextTitle ==
    \/ ExtractTitle
    \/ VideoExtractTitle
    \/ DownloadAndMergePaths
    \/ VideoDownloadPaths

SpecTitle == InitTitle /\ [][NextTitle]_vars

----------------------------------------------------------------------------
(* The page: extract_video_json.  The text of a <script> element is a       *)
(* sequence of tokens: whitespace, the literal prefix, a JSON value, a word *)
(* that is no JSON.                                                         *)

MaxScripts == 2      \* most <script> elements in a page
MaxScriptLen == 2    \* most tokens in the text of a <script> element

prefix == <<"window.__playinfo__=">>

ScriptTokens == {" ", "window.__playinfo__=", "{}", "foo"}

\* Every page with at most k <script> elements of at most n tokens each.
ScriptLists(k, n) == SeqsUpTo(SeqsUpTo(ScriptTokens, n), k)

\* str::trim_start()
RECURSIVE TrimStart(_)
TrimStart(str) ==
    IF str # <<>> /\ Head(str) = " " THEN TrimStart(Tail(str)) ELSE str

\* str::trim_end()
RECURSIVE TrimEnd(_)
TrimEnd(str) ==
    IF str # <<>> /\ str[Len(str)] = " " THEN TrimEnd(SubSeq(str, 1, Len(str) - 1))
    ELSE str

\* str::trim_start() alone
TrimStartOnly(str) == TrimStart(str)

\* str::trim()
Trim(str) == TrimEnd(TrimStart(str))

\* str::starts_with
starts_with(str, pre) ==
    /\ Len(str) >= Len(pre)
    /\ SubSeq(str, 1, Len(pre)) = pre

JsonOk(fn, text) == [fn |-> fn, kind |-> "ok", text |-> text]
JsonErr(fn) == [fn |-> fn, kind |-> "err", text |-> <<>>]

\* for script_element in document.select(&script_selector) {
\*     let script = script_element.text().collect::<Vec<_>>().join("").trim().to_owned();
\*     if script.starts_with(prefix) { return Ok(script[prefix.len()..].to_owned()); } }
\* return Err(..)
RECURSIVE ExtractVideoJsonLoop(_, _)
ExtractVideoJsonLoop(document, i) ==
    IF i > Len(document) THEN JsonErr("extract_video_json")
    ELSE LET script == Trim(document[i])
         IN  IF starts_with(script, prefix)
               THEN JsonOk("extract_video_json",
                           SubSeq(script, Len(prefix) + 1, Len(script)))
               ELSE ExtractVideoJsonLoop(document, i + 1)

\* extract_video_json of bilibili/api/bv.rs
extract_video_json(document) == ExtractVideoJsonLoop(document, 1)

\* The loop of Video::extract_video_json: the same without trim().
RECURSIVE VideoExtractVideoJsonLoop(_, _)
VideoExtractVideoJsonLoop(document, i) ==
    IF i > Len(document) THEN JsonErr("Video::extract_video_json")
    ELSE LET script == document[i]
         IN  IF starts_with(script, prefix)
               THEN JsonOk("Video::extract_video_json",
                           SubSeq(script, Len(prefix) + 1, Len(script)))
               ELSE VideoExtractVideoJsonLoop(document, i + 1)

\* Video::extract_video_json of video.rs
Video_extract_video_json(document) == VideoExtractVideoJsonLoop(document, 1)

InitScript ==
    /\ DownloadIdle
    /\ ResolverIdle
    /\ h1s = <<>>
    /\ scripts \in ScriptLists(MaxScripts, MaxScriptLen)
    /\ config = [state |-> "missing"]
    /\ ret = NoRet

ExtractVideoJson ==
    /\ ret = NoRet
    /\ ret' = extract_video_json(scripts)
    /\ UNCHANGED outsidePage

VideoExtractVideoJson ==
    /\ ret = NoRet
    /\ ret' = Video_extract_video_json(scripts)
    /\ UNCHANGED outsidePage

NextScript == ExtractVideoJson \/ VideoExtractVideoJson

SpecScript == InitScript /\ [][NextScript]_vars

----------------------------------------------------------------------------
(* The page: extract_initial_state of bilibili/initial_state.rs.  A script  *)
(* fragment is a sequence of statements, one per line; its content is their *)
(* text, character by character, and the parser gives each assignment the   *)
(* byte span of its right-hand side.                                        *)

MaxStmts == 2        \* most statements in a script fragment
MaxBlocks == 2       \* most <script> elements in a page (AST mode)

\* window.__INITIAL_STATE__
WindowInitialStateText ==
    <<"w", "i", "n", "d", "o", "w", ".", "_", "_", "I", "N", "I", "T", "I",
      "A", "L", "_", "S", "T", "A", "T", "E", "_", "_">>

\* window.__playinfo__
WindowPlayinfoText ==
    <<"w", "i", "n", "d", "o", "w", ".", "_", "_", "p", "l", "a", "y", "i",
      "n", "f", "o", "_", "_">>

\* self.__INITIAL_STATE__
SelfInitialStateText ==
    <<"s", "e", "l", "f", ".", "_", "_", "I", "N", "I", "T", "I", "A", "L",
      "_", "S", "T", "A", "T", "E", "_", "_">>

\* Right-hand sides: an initial state, an object that is none, and an
\* assignment to window.__INITIAL_STATE__ nested as the value assigned.
StateJson ==
    <<"{", "\"", "v", "i", "d", "e", "o", "D", "a", "t", "a", "\"", ":", "{",
      "\"", "c", "i", "d", "\"", ":", "1", ",", "\"", "b", "v", "i", "d",
      "\"", ":", "\"", "b", "\"", "}", "}">>

EmptyObject == <<"{", "}">>

NestedAssignment == WindowInitialStateText \o <<"=", "{", "}">>

\* Assignment targets, as AssignTarget of swc_ecma_ast.
InitialStateTarget == [member |-> TRUE, obj |-> "window", prop |-> "__INITIAL_STATE__"]
PlayinfoTarget == [member |-> TRUE, obj |-> "window", prop |-> "__playinfo__"]
SelfTarget == [member |-> TRUE, obj |-> "self", prop |-> "__INITIAL_STATE__"]
IdentTarget == [member |-> FALSE, obj |-> "x", prop |-> ""]

TargetText(left) ==
    CASE left = InitialStateTarget -> WindowInitialStateText
      [] left = PlayinfoTarget     -> WindowPlayinfoText
      [] left = SelfTarget         -> SelfInitialStateText
      [] left = IdentTarget        -> <<"x">>

Assign(left, right, semi) ==
    [kind |-> "assign", left |-> left, right |-> right, semi |-> semi]

\* A line the parser cannot recover from.
Broken == [kind |-> "broken", left |-> IdentTarget, right |-> <<>>, semi |-> FALSE]

\* The statements a fragment given to the locator is made of.
LocatorStatements ==
    {Assign(l, r, semi) :
        l \in {InitialStateTarget, PlayinfoTarget, SelfTarget, IdentTarget},
        r \in {StateJson, EmptyObject, NestedAssignment},
        semi \in BOOLEAN}
    \cup {Broken}

\* The statements the script elements of a page are made of.
PageStatements ==
    {Assign(InitialStateTarget, StateJson, TRUE),
     Assign(InitialStateTarget, EmptyObject, FALSE),
     Assign(PlayinfoTarget, StateJson, TRUE),
     Assign(IdentTarget, NestedAssignment, TRUE),
     Broken}

\* The text of a statement, ended by a line feed.
StmtText(st) ==
    IF st.kind = "broken" THEN <<"}", "\n">>
    ELSE TargetText(st.left) \o <<"=">> \o st.right
         \o (IF st.semi THEN <<";">> ELSE <<>>) \o <<"\n">>

\* script_content: the text of the fragment.
RECURSIVE SourceText(_)
SourceText(stmts) ==
    IF stmts = <<>> THEN <<>>
    ELSE StmtText(Head(stmts)) \o SourceText(Tail(stmts))

NoSpan == [some |-> FALSE, lo |-> 0, hi |-> 0]
SomeSpan(lo, hi) == [some |-> TRUE, lo |-> lo, hi |-> hi]

\* The assignment expressions of the module, in source order, each with the
\* span of node.right; pos is the BytePos of the statement's first character.
RECURSIVE ParseLoop(_, _)
ParseLoop(stmts, pos) ==
    IF stmts = <<>> THEN <<>>
    ELSE LET st == Head(stmts)
             lo == pos + Len(TargetText(st.left)) + 1
         IN  <<[left |-> st.left, right_span |-> SomeSpan(lo, lo + Len(st.right))]>>
             \o ParseLoop(Tail(stmts), pos + Len(StmtText(st)))

\* parse_js: parse_module().expect("failed to parser module").  The source
\* file is the first of a new SourceMap, so its first character has BytePos 1.
parse_js(stmts) ==
    IF \E k \in 1..Len(stmts) : stmts[k].kind = "broken"
      THEN [kind |-> "panic", body |-> <<>>]
      ELSE [kind |-> "ok", body |-> ParseLoop(stmts, 1)]

\* InitialStateVisitor::visit_assign_expr: the value of object_span after
\* the visit of node.  The method does not visit node's children.
visit_assign_expr(object_span, node) ==
    IF ~node.left.member THEN object_span
    ELSE IF node.left.obj # "window" THEN object_span
    ELSE IF node.left.prop = "__INITIAL_STATE__" THEN node.right_span
    ELSE object_span

\* ast.visit_with(&mut visitor)
RECURSIVE VisitWith(_, _)
VisitWith(body, object_span) ==
    IF body = <<>> THEN object_span
    ELSE VisitWith(Tail(body), visit_assign_expr(object_span, Head(body)))

\* content[low..hi] with low = span.lo - 1 + 1, hi = span.hi - 1 + 1
SliceShiftedByOne(content, span) == SubSeq(content, span.lo + 1, span.hi)

\* content[low..hi] with low = span.lo - 1, hi = span.hi - 1 (0-based, hi
\* excluded)
Slice(content, span) == SubSeq(content, (span.lo - 1) + 1, span.hi - 1)

\* try_extract_from_code
try_extract_from_code(body, content) ==
    LET object_span == VisitWith(body, NoSpan)
    IN  IF object_span.some
          THEN [fn |-> "try_extract_from_code", kind |-> "some",
                text |-> Slice(content, object_span)]
          ELSE [fn |-> "try_extract_from_code", kind |-> "none", text |-> <<>>]

\* serde_json::from_str::<InitialStateSpec>(&json_string) succeeds.
IsInitialState(json_string) == json_string = StateJson

InitialStateRet(kind, block, text) ==
    [fn |-> "extract_initial_state", kind |-> kind, block |-> block, text |-> text]

\* for script_element in document.select("script:not([type*=json])") { .. }
\* Err(anyhow!("failed to find __INITIAL_STATE__ assignment"))
RECURSIVE ExtractInitialStateLoop(_, _)
ExtractInitialStateLoop(document, i) ==
    IF i > Len(document) THEN InitialStateRet("err", 0, <<>>)
    ELSE IF document[i].type_json THEN ExtractInitialStateLoop(document, i + 1)
    ELSE LET ast == parse_js(document[i].stmts)
         IN  IF ast.kind = "panic" THEN InitialStateRet("panic", i, <<>>)
             ELSE LET found == try_extract_from_code(ast.body,
                                                     SourceText(document[i].stmts))
                  IN  IF found.kind = "some"
                        THEN IF IsInitialState(found.text)
                               THEN InitialStateRet("ok", i, found.text)
                               ELSE InitialStateRet("panic", i, found.text)
                        ELSE ExtractInitialStateLoop(document, i + 1)

\* extract_initial_state
extract_initial_state(document) == ExtractInitialStateLoop(document, 1)

Block(type_json, stmts) == [type_json |-> type_json, stmts |-> stmts]

\* Every page of at most k script elements of at most n statements each.
Pages(k, n) ==
    SeqsUpTo({Block(t, f) : t \in BOOLEAN, f \in SeqsUpTo(PageStatements, n)}, k)

InitInitialState ==
    /\ DownloadIdle
    /\ ResolverIdle
    /\ h1s = <<>>
    /\ scripts \in Pages(MaxBlocks, MaxStmts)
    /\ config = [state |-> "missing"]
    /\ ret = NoRet

ExtractInitialState ==
    /\ ret = NoRet
    /\ ret' = extract_initial_state(scripts)
    /\ UNCHANGED outsidePage

SpecInitialState == InitInitialState /\ [][ExtractInitialState]_vars

(* The locator alone: one fragment, parsed and searched *)

InitLocator ==
    /\ DownloadIdle
    /\ ResolverIdle
    /\ h1s = <<>>
    /\ scripts \in {<<Block(FALSE, f)>> : f \in SeqsUpTo(LocatorStatements, MaxStmts)}
    /\ config = [state |-> "missing"]
    /\ ret = NoRet

\* parse_js(&script_content) and try_extract_from_code(&ast, &script_content)
TryExtractFromCode ==
    /\ ret = NoRet
    /\ LET ast == parse_js(scripts[1].stmts)
       IN  ret' = IF ast.kind = "panic"
                    THEN [fn |-> "try_extract_from_code", kind |-> "panic", text |-> <<>>]
                    ELSE try_extract_from_code(ast.body, SourceText(scripts[1].stmts))
    /\ UNCHANGED outsidePage

SpecLocator == InitLocator /\ [][TryExtractFromCode]_vars

----------------------------------------------------------------------------
(* The configuration file: read_config of main.rs *)

MaxArrayLen == 2     \* longest JSON array in the configuration file

JsonString(str) == [type |-> "string", value |-> str]
JsonNumber(n) == [type |-> "number", value |-> n]

JsonValues == {JsonString("2"), JsonString("3"), JsonNumber(2)}

Absent == [type |-> "absent", value |-> 0]

ConfigKeys == {"SESSDATA", "sess_data", "other"}

\* What the file can hold: text that is no JSON, a JSON object with any of
\* the keys, a JSON array, a JSON string or number.
Contents(n) ==
    {[json |-> "invalid"]}
    \cup {[json |-> "object", fields |-> f] : f \in [ConfigKeys -> JsonValues \cup {Absent}]}
    \cup {[json |-> "array", elems |-> e] : e \in SeqsUpTo(JsonValues, n)}
    \cup {[json |-> "scalar", value |-> v] : v \in JsonValues}

\* The file: not there, there but not readable as UTF-8 text, or readable.
ConfigFiles(n) ==
    {[state |-> "missing"], [state |-> "unreadable"]}
    \cup {[state |-> "file", contents |-> c] : c \in Contents(n)}

ParsedOk(sess_data) == [ok |-> TRUE, sess_data |-> sess_data]
ParsedErr == [ok |-> FALSE, sess_data |-> ""]

\* Deserialization of the one field sess_data: String.
FieldFrom(v) == IF v.type = "string" THEN ParsedOk(v.value) ELSE ParsedErr

\* serde_json::from_str::<Config>: the derived Deserialize of Config, whose
\* field sess_data has #[serde(alias = "SESSDATA")], so both names are its
\* keys; unknown keys are ignored; a JSON array is read as the fields in order.
from_str_Config(contents) ==
    CASE contents.json = "object" ->
            LET renamed == contents.fields["SESSDATA"]
                own == contents.fields["sess_data"]
            IN  IF renamed # Absent /\ own # Absent THEN ParsedErr
                ELSE IF renamed # Absent THEN FieldFrom(renamed)
                ELSE IF own # Absent THEN FieldFrom(own)
                ELSE ParsedErr
      [] contents.json = "array" ->
            IF Len(contents.elems) # 1 THEN ParsedErr
            ELSE FieldFrom(contents.elems[1])
      [] OTHER -> ParsedErr

ConfigRet(sess_data) == [fn |-> "read_config", kind |-> "ok", sess_data |-> sess_data]

\* read_config
read_config(cfg) ==
    IF cfg.state # "file" THEN ConfigRet("")
    ELSE LET parsed == from_str_Config(cfg.contents)
         IN  IF parsed.ok THEN ConfigRet(parsed.sess_data) ELSE ConfigRet("")

InitConfig ==
    /\ DownloadIdle
    /\ ResolverIdle
    /\ h1s = <<>>
    /\ scripts = <<>>
    /\ config \in ConfigFiles(MaxArrayLen)
    /\ ret = NoRet

ReadConfig ==
    /\ ret = NoRet
    /\ ret' = read_config(config)
    /\ UNCHANGED outsidePage

SpecConfig == InitConfig /\ [][ReadConfig]_vars

----------------------------------------------------------------------------
(* Properties of the stream resolver *)

MaxOf(S) == CHOOSE m \in S : \A x \in S : x <= m

\* The first position (1-based) among cands whose bandwidth is the largest.
FirstMaxBandwidth(rs, cands) ==
    LET top == MaxOf({rs[i].bandwidth : i \in cands})
    IN  CHOOSE i \in cands :
            /\ rs[i].bandwidth = top
            /\ \A j \in cands : rs[j].bandwidth = top => i <= j

\* The quality ids the selected index counts in: accept_quality for
\* get_video_url of bilibili/video.rs, the quality list of the VideoInfo for
\* get_video_url of video_info.rs.
Tiers ==
    IF answer.fn = "info_get_video_url"
      THEN VideoInfo_new(accept_quality, accept_description, video).quality
      ELSE accept_quality

\* The positions of the video variants that have the selected tier's id.
Candidates == {i \in 1..Len(video) : video[i].id = Tiers[selected + 1]}

\* C8: for a non-empty list of quality ids, the index that
\* get_best_quality_index and get_hightest_quality_name arrive at is that of
\* the largest id, and of its first occurrence when it occurs more than once.
C8_BestQualityIsFirstLargest ==
    (answer.fn \in {"get_best_quality_index", "get_hightest_quality_name"}
        /\ accept_quality # <<>>) =>
        LET top == MaxOf({accept_quality[i] : i \in 1..Len(accept_quality)})
        IN  /\ answer.idx < Len(accept_quality)
            /\ accept_quality[answer.idx + 1] = top
            /\ \A j \in 1..answer.idx : accept_quality[j] < top

\* C8 witness: get_best_quality_index returned index 1 for a list whose
\* largest id stands at indices 1 and 2.
C8_Witness ==
    /\ answer = IndexAnswer("get_best_quality_index", 1)
    /\ Len(accept_quality) = 3
    /\ accept_quality[1] < accept_quality[2]
    /\ accept_quality[2] = accept_quality[3]

\* C9: when some video variant has the selected tier's id, get_video_url
\* returns the base_url of the first of these variants whose bandwidth is the
\* largest among them, whatever the bandwidths are.
C9_VideoUrlIsFirstMaxBandwidth ==
    (answer.fn \in {"get_video_url", "info_get_video_url"}
        /\ selected < Len(Tiers)
        /\ Candidates # {}) =>
        /\ answer.kind = "ok"
        /\ answer.url = video[FirstMaxBandwidth(video, Candidates)].base_url

\* C10: for a non-empty list of audio variants the resolved audio URL is the
\* base_url of the first variant whose bandwidth is the largest of the list,
\* whatever the bandwidths are.
C10_AudioUrlIsFirstMaxBandwidth ==
    (answer.fn \in {"get_audio_url", "get_best_audio"} /\ audio # <<>>) =>
        /\ answer.kind = "ok"
        /\ answer.url = audio[FirstMaxBandwidth(audio, 1..Len(audio))].base_url

\* C11: when no video variant has the selected tier's id, or the list of audio
\* variants is empty, the resolver function returns an error value: it neither
\* returns a URL (an empty one included) nor panics.
C11_EmptyCandidatesIsErrorValue ==
    /\ (answer.fn \in {"get_video_url", "info_get_video_url"}
            /\ selected < Len(Tiers)
            /\ Candidates = {}) => answer.kind = "err"
    /\ (answer.fn \in {"get_audio_url", "get_best_audio"} /\ audio = <<>>) =>
            answer.kind = "err"

\* The quality ids the catalog accepts.
AcceptedIds == {accept_quality[i] : i \in 1..Len(accept_quality)}

\* C12: VideoInfo::new returns an error exactly when some video variant's id
\* is not among the accepted ids, and otherwise succeeds with, for every i,
\* quality_description[i] the label at the index where quality[i] first
\* occurs among the accepted ids.
C12_VideoInfoNewErrorIffUnknownId ==
    answer.fn = "VideoInfo::new" =>
        IF \E i \in 1..Len(video) : video[i].id \notin AcceptedIds
          THEN answer.kind = "err"
          ELSE /\ answer.kind = "ok"
               /\ Len(answer.quality_description) = Len(answer.quality)
               /\ \A i \in 1..Len(answer.quality) :
                    LET index == Position(accept_quality, answer.quality[i], 0)
                    IN  /\ index >= 0
                        /\ index < Len(accept_description)
                        /\ answer.quality_description[i] = accept_description[index + 1]

\* C13: a catalog that VideoInfo::new accepts has as many labels as quality
\* ids, and one whose two lists differ in length is rejected with an error.
C13_CatalogListsSameLength ==
    answer.fn = "VideoInfo::new" =>
        /\ answer.kind = "ok" => Len(accept_quality) = Len(accept_description)
        /\ Len(accept_quality) # Len(accept_description) => answer.kind = "err"

----------------------------------------------------------------------------
(* Properties of title extraction *)

\* The text of an element: the characters of its descendant text nodes.
InnerText(children) == [i \in 1..Len(children) |-> children[i].data]

\* C14: title extraction succeeds exactly when the page has one <h1> element
\* and then returns that element's inner text; with none or with several it
\* returns an error.
C14_TitleIffExactlyOneH1 ==
    ret.fn = "extract_title" =>
        /\ ret.kind = "ok" <=> Len(h1s) = 1
        /\ ret.kind = "err" <=> Len(h1s) # 1
        /\ ret.kind = "ok" => ret.title = InnerText(h1s[1])

PathNames == {"video", "audio", "output"}

\* C15: Video::extract_title returns the title it extracted with every "/"
\* replaced by "|" and nothing else changed, and the title component of each
\* file name the download operation builds (temporary video, temporary
\* audio, output) holds no "/".
C15_SlashReplacedPathsSafe ==
    /\ (ret.fn = "Video::extract_title" /\ ret.kind = "ok") =>
            LET raw == inner_html(h1s[1])
            IN  /\ Len(ret.title) = Len(raw)
                /\ \A i \in 1..Len(raw) :
                        ret.title[i] = (IF raw[i] = "/" THEN "|" ELSE raw[i])
    /\ (ret.fn \in {"extract_title", "Video::extract_title"}
            /\ ret.kind = "ok" /\ ret.paths # NoPaths) =>
            \A f \in PathNames :
                /\ Len(ret.paths[f]) = Len(inner_html(h1s[1])) + 1
                /\ \A i \in 1..Len(ret.paths[f]) : ret.paths[f][i] # "/"

\* C15 witness: the file names were built from a title extracted by
\* Video::extract_title from an <h1> whose content holds two "/".
C15_Witness ==
    /\ ret.fn = "Video::extract_title"
    /\ ret.kind = "ok"
    /\ ret.paths # NoPaths
    /\ h1s = <<(<<TextNode("/"), TextNode("/")>>)>>
    /\ ret.title = <<"|", "|">>

----------------------------------------------------------------------------
(* Properties of extract_video_json *)

\* The text str without its leading and trailing whitespace.
Trimmed(str) ==
    CHOOSE t \in {SubSeq(str, i, j) : i \in 1..(Len(str) + 1), j \in 0..Len(str)} :
        \E i \in 1..(Len(str) + 1), j \in 0..Len(str) :
            /\ t = SubSeq(str, i, j)
            /\ \A k \in 1..(i - 1) : str[k] = " "
            /\ \A k \in (j + 1)..Len(str) : str[k] = " "
            /\ t = <<>> \/ (t[1] # " " /\ t[Len(t)] # " ")

AfterPrefix(str) == SubSeq(str, Len(prefix) + 1, Len(str))

\* The script elements, by position, whose text starts with the prefix.
RawMatches == {i \in 1..Len(scripts) : starts_with(scripts[i], prefix)}

\* The script elements, by position, whose trimmed text starts with the prefix.
TrimmedMatches == {i \in 1..Len(scripts) : starts_with(Trimmed(scripts[i]), prefix)}

MinOf(S) == CHOOSE m \in S : \A x \in S : m <= x

\* C16 as stated: extract_video_json of bilibili/api/bv.rs returns, for the
\* first script element whose text starts with the prefix, the text after the
\* prefix, and the not-found error exactly when no script element's text
\* starts with the prefix.
C16_FirstBlockStartingWithPrefix ==
    ret.fn = "extract_video_json" =>
        /\ ret.kind = "err" <=> RawMatches = {}
        /\ RawMatches # {} =>
                /\ ret.kind = "ok"
                /\ ret.text = AfterPrefix(scripts[MinOf(RawMatches)])

\* C16 amended: extract_video_json of bilibili/api/bv.rs trims each script
\* element's text first; it returns what follows the prefix in the trimmed
\* text of the first element whose trimmed text starts with the prefix, and
\* the not-found error exactly when there is no such element.
\* Video::extract_video_json of video.rs does the same on the untrimmed text.
C16_FirstBlockWhoseTrimmedTextStartsWithPrefix ==
    /\ ret.fn = "extract_video_json" =>
            /\ ret.kind = "err" <=> TrimmedMatches = {}
            /\ TrimmedMatches # {} =>
                    /\ ret.kind = "ok"
                    /\ ret.text = AfterPrefix(Trimmed(scripts[MinOf(TrimmedMatches)]))
    /\ ret.fn = "Video::extract_video_json" =>
            /\ ret.kind = "err" <=> RawMatches = {}
            /\ RawMatches # {} =>
                    /\ ret.kind = "ok"
                    /\ ret.text = AfterPrefix(scripts[MinOf(RawMatches)])

\* C16 witness: extract_video_json passed over a first script element and
\* returned from the second, whose text has whitespace before the prefix.
C16_Witness ==
    /\ ret.fn = "extract_video_json"
    /\ ret.kind = "ok"
    /\ Len(scripts) = 2
    /\ scripts[1] = <<"foo">>
    /\ scripts[2] = <<" ", "window.__playinfo__=">>

\* A JSON text: one JSON value, whitespace around it allowed.
IsJson(text) == Trimmed(text) = <<"{}">>

\* C17: extract_video_json returns an error when a script element starts
\* with the prefix and what follows the prefix is not JSON.
C17_NonJsonRemainderIsError ==
    (ret.fn = "extract_video_json"
        /\ TrimmedMatches # {}
        /\ ~IsJson(AfterPrefix(Trimmed(scripts[MinOf(TrimmedMatches)])))) =>
        ret.kind = "err"

----------------------------------------------------------------------------
(* Properties of extract_initial_state *)

\* The script elements the selector keeps, by position.
Selected == {i \in 1..Len(scripts) : ~scripts[i].type_json}

Invalid(i) == \E k \in 1..Len(scripts[i].stmts) : scripts[i].stmts[k].kind = "broken"

\* The statements of script element i that assign to window.__INITIAL_STATE__
\* at the top level of the fragment.
TopLevelAssignments(i) ==
    {k \in 1..Len(scripts[i].stmts) :
        /\ scripts[i].stmts[k].kind = "assign"
        /\ scripts[i].stmts[k].left = InitialStateTarget}

\* C18: a script element that does not parse is skipped: extraction never
\* panics at such an element, and when an element that parses assigns an
\* initial state to window.__INITIAL_STATE__, and every element before it
\* either does not parse or does not assign to it, extraction succeeds.
C18_InvalidBlockSkipped ==
    ret.fn = "extract_initial_state" =>
        /\ ~(ret.kind = "panic" /\ Invalid(ret.block))
        /\ \A i \in Selected :
            (/\ ~Invalid(i)
             /\ TopLevelAssignments(i) # {}
             /\ \A k \in TopLevelAssignments(i) : scripts[i].stmts[k].right = StateJson
             /\ \A j \in Selected :
                    j < i => (Invalid(j) \/ TopLevelAssignments(j) = {}))
            => ret.kind = "ok"

----------------------------------------------------------------------------
(* Properties of the locator *)

\* The statements of the fragment whose value assigned is itself an
\* assignment to window.__INITIAL_STATE__.
NestedAssignments(i) ==
    {k \in 1..Len(scripts[i].stmts) :
        /\ scripts[i].stmts[k].kind = "assign"
        /\ scripts[i].stmts[k].right = NestedAssignment}

\* C19: for a fragment that parses and holds exactly one assignment to
\* window.__INITIAL_STATE__, the text the locator recovers is the source text
\* of the assignment's right-hand side, from its first character to its
\* last: nothing is dropped and the ";" that follows is not included.
C19_RecoveredTextIsRightHandSide ==
    (ret.fn = "try_extract_from_code"
        /\ ~Invalid(1)
        /\ Cardinality(TopLevelAssignments(1)) + Cardinality(NestedAssignments(1)) = 1) =>
        /\ TopLevelAssignments(1) # {} => ret.kind = "some"
        /\ ret.kind = "some" =>
            \E k \in TopLevelAssignments(1) :
                LET right == scripts[1].stmts[k].right
                IN  /\ ret.text = right
                    /\ ret.text[1] = right[1]
                    /\ ret.text[Len(ret.text)] = right[Len(right)]
                    /\ ret.text[Len(ret.text)] # ";"

\* C19 witness: the locator recovered the initial state assigned by the
\* second statement of a fragment, a statement that ends with ";".
C19_Witness ==
    /\ ret.fn = "try_extract_from_code"
    /\ ret.kind = "some"
    /\ ret.text = StateJson
    /\ scripts[1].stmts = <<Assign(PlayinfoTarget, EmptyObject, TRUE),
                            Assign(InitialStateTarget, StateJson, TRUE)>>

----------------------------------------------------------------------------
(* Properties of read_config *)

\* The file holds a JSON object whose key SESSDATA has a string for value.
HasSessdataString ==
    /\ config.state = "file"
    /\ config.contents.json = "object"
    /\ config.contents.fields["SESSDATA"].type = "string"

\* C20: read_config always returns a configuration; its session token is the
\* string under SESSDATA when the file holds a JSON object with a string
\* under that key, and the empty string in every other case: no file, no
\* valid JSON, no SESSDATA key, a SESSDATA that is not a string.
C20_ReadConfigTokenOrEmpty ==
    ret.fn = "read_config" =>
        /\ ret.kind = "ok"
        /\ ret.sess_data = (IF HasSessdataString
                              THEN config.contents.fields["SESSDATA"].value
                              ELSE "")

----------------------------------------------------------------------------
(* Properties of Downloader::download *)

\* The positions of the video variants of the tier reported as in use.
ReportedTierVariants ==
    {i \in 1..Len(video) : video[i].id = accept_quality[answer.idx + 1]}

\* C21: the video URL that Downloader::download hands to the download is the
\* base_url of a variant of the tier it reported, the first of largest
\* bandwidth among the variants of that tier.
C21_VideoUrlOfReportedTier ==
    (answer.fn = "Downloader::download" /\ answer.kind = "ok") =>
        /\ ReportedTierVariants # {}
        /\ answer.url = video[FirstMaxBandwidth(video, ReportedTierVariants)].base_url

\* C22: when a fragment holds more than one statement that assigns to
\* window.__INITIAL_STATE__, the locator recovers the right-hand side of the
\* first of them in source order; a later one does not replace it.
C22_FirstAssignmentKept ==
    (ret.fn = "try_extract_from_code"
        /\ ret.kind = "some"
        /\ Cardinality(TopLevelAssignments(1)) > 1) =>
        ret.text = scripts[1].stmts[MinOf(TopLevelAssignments(1))].right

----------------------------------------------------------------------------
(* Properties of the transport *)

\* C23: a failure of the transport in fetch_body or download_to, a response
\* whose status is not 200 included, comes back as an error value: no fetch
\* ever ends the process.
C23_TransportFailureNeverExits ==
    proc # "exited"

====
